---- MODULE Spec2Model ----
(***************************************************************************)
(* FileMaintainer: the remote resolver (resolver.go) and the file          *)
(* processor (processor.go).                                                *)
(*                                                                         *)
(* Strings whose characters matter (repository names, globs, file          *)
(* contents) are sequences of one-character strings; strings that are only *)
(* compared for emptiness or equality (owners, remote names) are TLA+      *)
(* strings, "" being the empty Go string.                                  *)
(***************************************************************************)
EXTENDS Integers, Sequences, FiniteSets, TLC

VARIABLES
    ghRepos,      \* hosting platform: owner -> the repositories it lists, in listing order
    remoteCfg,    \* config.Remote: remote name -> RemoteSpec
    resolved,     \* RemoteResolver.resolved: map remote name -> ResolvedRemote
    mainLock,     \* RemoteResolver.mainLock: its holder, or NoThread
    remoteLocks,  \* RemoteResolver.remoteLocks: map remote name -> holder of that mutex
    rs,           \* per calling thread: its position inside ResolveRemote and its locals
    hist,         \* per calling thread: the ResolveRemote calls that returned, in order
    crashed,      \* the process died (nil dereference or a fatal map race)
    dryRun,       \* Processor.dryRun
    onlyRepo,     \* Processor.onlyRepo
    fileCfg,      \* config.File: file name -> local content and remote names
    pc,           \* position of the run inside ProcessFiles
    filesLeft,    \* files the range over config.File has not reached
    curFile,      \* the file ProcessFile is working on
    remoteIdx,    \* index into file.Remotes
    repoIdx,      \* index into resolved.Repos
    cur,          \* the ResolvedRemote applyToAllRepos iterates
    unit,         \* the current (file, repository): the local content and the calls made
    visited,      \* the (file, remote index) pairs whose resolution was asked for
    reconciled,   \* the repositories applyToAllRepos called the callback for, in order
    nFailed,      \* how many (file, remote, repository) tuples returned an error
    wrote,        \* some write call (primary or fallback step) was made
    diffArgs,     \* arguments of the last printUpdateFileDryRun
    linesOfDiff   \* the line count it logged

resolverVars == <<ghRepos, remoteCfg, resolved, mainLock, remoteLocks, rs, hist, crashed>>

procVars == <<dryRun, onlyRepo, fileCfg, pc, filesLeft, curFile, remoteIdx, repoIdx,
              cur, unit, visited, reconciled, nFailed, wrote, diffArgs, linesOfDiff>>

vars == <<resolverVars, procVars>>

----------------------------------------------------------------------------
(* Bounds *)

\* the most repositories one owner holds on the platform
MaxRepos == 3
\* repositories per listing page (the program asks for 100 per page)
PerPage == 2
\* ResolveRemote calls one thread issues in the resolver specifications
MaxCalls == 2
\* the longest content given to printUpdateFileDryRun on its own
MaxLen == 5

----------------------------------------------------------------------------
(* Values *)

NoThread == "none"
\* a nil *github.Response: the transport failed before any HTTP status arrived
NilResp == 0

NameA == <<"a", ".", "j">>
NameB == <<"b", ".", "p">>
NameC == <<"c", ".", "j">>
EmptyStr == <<>>

Owners == {"Acme", "bob"}
RemoteNames == {"r1", "r2"}

\* what the platform may hold: a repository has a name and an archived mark
Entries ==
    { [Name |-> NameA, Archived |-> FALSE],
      [Name |-> NameB, Archived |-> FALSE],
      [Name |-> NameC, Archived |-> FALSE],
      [Name |-> NameB, Archived |-> TRUE] }

SeqsUpTo(S, n) == UNION { [1..k -> S] : k \in 0..n }

\* RemoteSpec values that pass validateRemotes: exactly one of Org, User
RemoteSpecs ==
    { r \in [ Org : {"", "Acme"}, User : {"", "bob"},
              Repo : {EmptyStr, NameA},
              Repos : {<<>>, <<NameB, NameC>>},
              RepoGlob : {EmptyStr, <<"*", ".", "j">>, <<"?", ".", "p">>},
              ExcludeRepos : {<<>>, <<NameC>>} ] :
        (r.Org = "") # (r.User = "") }

----------------------------------------------------------------------------
(* RemoteSpec.Owner *)

Owner(remote) == IF remote.Org # "" THEN remote.Org ELSE remote.User

----------------------------------------------------------------------------
(* doublestar.Match on a name without path separators: "*" matches any run *)
(* of characters, "?" exactly one, any other character itself.             *)

\* a matcher whose "*" matches the empty run only
RECURSIVE MatchStarEmpty(_, _)
MatchStarEmpty(pattern, name) ==
    IF pattern = <<>> THEN name = <<>>
    ELSE IF Head(pattern) = "*" THEN MatchStarEmpty(Tail(pattern), name)
    ELSE IF name = <<>> THEN FALSE
    ELSE IF Head(pattern) = "?" THEN MatchStarEmpty(Tail(pattern), Tail(name))
    ELSE Head(pattern) = Head(name) /\ MatchStarEmpty(Tail(pattern), Tail(name))

RECURSIVE Match(_, _)
Match(pattern, name) ==
    IF pattern = <<>> THEN name = <<>>
    ELSE IF Head(pattern) = "*"
         THEN Match(Tail(pattern), name)
              \/ (name # <<>> /\ Match(pattern, Tail(name)))
    ELSE IF name = <<>> THEN FALSE
    ELSE IF Head(pattern) = "?" THEN Match(Tail(pattern), Tail(name))
    ELSE Head(pattern) = Head(name) /\ Match(Tail(pattern), Tail(name))

----------------------------------------------------------------------------
(* listAllRepos *)

\* the owner whose repositories one listing call asks for
ListedOwner(remote) == IF remote.User # "" THEN remote.User ELSE remote.Org

InSeq(x, s) == \E i \in 1..Len(s) : s[i] = x

\* a filter that forgets the archived mark
KeepRepoArchivedToo(repo, remote) == ~InSeq(repo.Name, remote.ExcludeRepos)

\* the filter of one listed repository: not archived and not in ExcludeRepos
KeepRepo(repo, remote) == ~repo.Archived /\ ~InSeq(repo.Name, remote.ExcludeRepos)

\* the platform's answer to a successful request for one page
PageBody(owner, page) ==
    LET all == ghRepos[owner]
        lo  == (page - 1) * PerPage + 1
        hi  == IF page * PerPage < Len(all) THEN page * PerPage ELSE Len(all)
    IN  [ Repos    |-> IF lo > hi THEN <<>> ELSE SubSeq(all, lo, hi),
          NextPage |-> IF page * PerPage < Len(all) THEN page + 1 ELSE 0 ]

\* HTTP outcomes of one listing request
ListStatuses == {200, 500, NilResp}

----------------------------------------------------------------------------
(* RemoteResolver *)

NilResolved == [Owner |-> "", Repos |-> <<>>]

IdleThread ==
    [ pc |-> "idle", name |-> "", remote |-> CHOOSE r \in RemoteSpecs : TRUE,
      page |-> 0, repos |-> <<>>, listings |-> 0, listed |-> "",
      pending |-> NilResolved, ok |-> FALSE, ret |-> NilResolved ]

EmptyMap == [n \in {} |-> NilResolved]

MapPut(m, k, v) == [n \in DOMAIN m \cup {k} |-> IF n = k THEN v ELSE m[n]]

\* a resolver that never finds a memoized result
CachedNever(name) == FALSE

\* resolver.go:51  the memoized result is looked up under the per-name lock
Cached(name) == name \in DOMAIN resolved

\* a per-name mutex that never blocks
RemoteLockIgnored(name) == name \in DOMAIN remoteLocks

\* one mutex for all names: free only when no per-name mutex is held
RemoteLockGlobal(name) ==
    /\ name \in DOMAIN remoteLocks
    /\ \A n \in DOMAIN remoteLocks : remoteLocks[n] = NoThread

\* resolver.go:48  sync.Mutex.Lock blocks until the mutex is free
RemoteLockFree(name) == name \in DOMAIN remoteLocks /\ remoteLocks[name] = NoThread

\* a dispatch that looks at the glob before the explicit repo
PolicyGlobFirst(remote) ==
    IF Len(remote.RepoGlob) > 0 THEN "glob"
    ELSE IF Len(remote.Repo) > 0 THEN "repo"
    ELSE IF Len(remote.Repos) > 0 THEN "repos"
    ELSE "all"

\* resolver.go:57-78  which branch of ResolveRemote computes the result
Policy(remote) ==
    IF Len(remote.Repo) > 0 THEN "repo"
    ELSE IF Len(remote.Repos) > 0 THEN "repos"
    ELSE IF Len(remote.RepoGlob) > 0 THEN "glob"
    ELSE "all"

\* resolver.go:69-75  names of the listed repositories the glob matches
\* resolver.go:85-88  names of all the listed repositories
RECURSIVE RepoNames(_, _)
RepoNames(repos, glob) ==
    IF repos = <<>> THEN <<>>
    ELSE IF Len(glob) > 0 /\ ~Match(glob, Head(repos).Name)
         THEN RepoNames(Tail(repos), glob)
         ELSE <<Head(repos).Name>> \o RepoNames(Tail(repos), glob)

\* resolver.go:130-142  the repositories of one page that are kept
RECURSIVE KeptOf(_, _)
KeptOf(respRepos, remote) ==
    IF respRepos = <<>> THEN <<>>
    ELSE (IF KeepRepo(Head(respRepos), remote) THEN <<Head(respRepos)>> ELSE <<>>)
         \o KeptOf(Tail(respRepos), remote)

\* a resolver that forgets to memoize
StoreNothing(name, r) == resolved

\* resolver.go:93  the result is stored under the remote name
StoreResolved(name, r) == MapPut(resolved, name, r)

\* a call to ResolveRemote(remote, name) by thread t begins
BeginResolve(t, name) ==
    [rs EXCEPT ![t] = [IdleThread EXCEPT !.pc = "ensureLock", !.name = name,
                                         !.remote = remoteCfg[name]]]

\* ResolveRemote returns; the deferred Unlock of line 49 releases the per-name lock
Return(t, ok, res) ==
    /\ rs' = [rs EXCEPT ![t].pc = "returned", ![t].ok = ok, ![t].ret = res]
    /\ remoteLocks' = [remoteLocks EXCEPT ![rs[t].name] = NoThread]
    /\ hist' = [hist EXCEPT ![t] = Append(@,
                  [ name |-> rs[t].name, remote |-> rs[t].remote, ok |-> ok,
                    res |-> res, listings |-> rs[t].listings,
                    listed |-> rs[t].listed,
                    contended |-> \E u \in DOMAIN rs :
                                     /\ u # t
                                     /\ rs[u].pc \notin {"idle", "returned"}
                                     /\ rs[u].name = rs[t].name ])]

\* resolver.go:37  ensureLockPresent takes the outer lock
EnsureLockAcquire(t) ==
    /\ ~crashed
    /\ UNCHANGED procVars
    /\ rs[t].pc = "ensureLock"
    /\ mainLock = NoThread
    /\ mainLock' = t
    /\ rs' = [rs EXCEPT ![t].pc = "ensureBody"]
    /\ UNCHANGED <<ghRepos, remoteCfg, resolved, remoteLocks, hist, crashed>>

\* resolver.go:38-41  the per-name mutex is created if absent; the outer lock is released
EnsureLockBody(t) ==
    /\ ~crashed
    /\ UNCHANGED procVars
    /\ rs[t].pc = "ensureBody"
    /\ remoteLocks' = IF rs[t].name \in DOMAIN remoteLocks THEN remoteLocks
                      ELSE MapPut(remoteLocks, rs[t].name, NoThread)
    /\ mainLock' = NoThread
    /\ rs' = [rs EXCEPT ![t].pc = "lockRemote"]
    /\ UNCHANGED <<ghRepos, remoteCfg, resolved, hist, crashed>>

\* resolver.go:48  the per-name mutex is read from the map and locked
LockRemote(t) ==
    /\ ~crashed
    /\ UNCHANGED procVars
    /\ rs[t].pc = "lockRemote"
    /\ RemoteLockFree(rs[t].name)
    /\ remoteLocks' = [remoteLocks EXCEPT ![rs[t].name] = t]
    /\ rs' = [rs EXCEPT ![t].pc = "checkCache"]
    /\ UNCHANGED <<ghRepos, remoteCfg, resolved, mainLock, hist, crashed>>

\* resolver.go:51-53  a memoized result is returned as it is
CheckCache(t) ==
    /\ ~crashed
    /\ UNCHANGED procVars
    /\ rs[t].pc = "checkCache"
    /\ IF Cached(rs[t].name)
       THEN Return(t, TRUE, resolved[rs[t].name])
       ELSE /\ rs' = [rs EXCEPT ![t].pc = "select"]
            /\ UNCHANGED <<remoteLocks, hist>>
    /\ UNCHANGED <<ghRepos, remoteCfg, resolved, mainLock, crashed>>

\* resolver.go:55-64, 78-80  an explicit repo or list needs no listing; a glob or
\* neither starts listAllRepos at page 1
SelectPolicy(t) ==
    /\ ~crashed
    /\ UNCHANGED procVars
    /\ rs[t].pc = "select"
    /\ LET remote == rs[t].remote
           policy == Policy(remote)
       IN  rs' = [rs EXCEPT ![t] =
                CASE policy = "repo" ->
                       [@ EXCEPT !.pc = "store",
                                 !.pending = [Owner |-> Owner(remote),
                                              Repos |-> <<remote.Repo>>]]
                  [] policy = "repos" ->
                       [@ EXCEPT !.pc = "store",
                                 !.pending = [Owner |-> Owner(remote),
                                              Repos |-> remote.Repos]]
                  [] OTHER ->
                       [@ EXCEPT !.pc = "list", !.page = 1, !.repos = <<>>,
                                 !.listings = @ + 1,
                                 !.listed = ListedOwner(remote)]]
    /\ UNCHANGED <<ghRepos, remoteCfg, resolved, mainLock, remoteLocks, hist, crashed>>

\* resolver.go:100-148  one iteration of the paging loop of listAllRepos
ListPage(t) ==
    /\ ~crashed
    /\ UNCHANGED procVars
    /\ rs[t].pc = "list"
    /\ \E status \in ListStatuses :
         LET remote == rs[t].remote
             \* resolver.go:106-123  the owner field the request is made under
             body   == PageBody(rs[t].listed, rs[t].page)
         IN
         CASE status = NilResp ->
                \* resp is nil: resp.StatusCode at line 124 panics
                /\ crashed' = TRUE
                /\ UNCHANGED <<rs, remoteLocks, hist>>
           [] status # 200 /\ status # NilResp ->
                \* resolver.go:124-126, 65-67, 81-83
                /\ Return(t, FALSE, NilResolved)
                /\ UNCHANGED crashed
           [] OTHER ->
                /\ rs' = [rs EXCEPT
                            ![t].repos = @ \o KeptOf(body.Repos, remote),
                            ![t].page  = IF body.NextPage = 0 THEN @ ELSE body.NextPage,
                            ![t].pc    = IF body.NextPage = 0 THEN "collect" ELSE "list"]
                /\ UNCHANGED <<remoteLocks, hist, crashed>>
    /\ UNCHANGED <<ghRepos, remoteCfg, resolved, mainLock>>

\* resolver.go:69-77, 85-90  the names of the listing become the result
CollectNames(t) ==
    /\ ~crashed
    /\ UNCHANGED procVars
    /\ rs[t].pc = "collect"
    /\ rs' = [rs EXCEPT ![t].pc = "store",
                        ![t].pending = [Owner |-> Owner(rs[t].remote),
                                        Repos |-> RepoNames(rs[t].repos, rs[t].remote.RepoGlob)]]
    /\ UNCHANGED <<ghRepos, remoteCfg, resolved, mainLock, remoteLocks, hist, crashed>>

\* resolver.go:93-94  the result is memoized and returned
StoreAndReturn(t) ==
    /\ ~crashed
    /\ UNCHANGED procVars
    /\ rs[t].pc = "store"
    /\ resolved' = StoreResolved(rs[t].name, rs[t].pending)
    /\ Return(t, TRUE, rs[t].pending)
    /\ UNCHANGED <<ghRepos, remoteCfg, mainLock, crashed>>

----------------------------------------------------------------------------
(* printUpdateFileDryRun *)

NoReport == -1

\* strings.Split(s, "\n")
RECURSIVE SplitLines(_)
SplitLines(s) ==
    IF \A i \in 1..Len(s) : s[i] # "\n" THEN <<s>>
    ELSE LET k == CHOOSE i \in 1..Len(s) :
                     s[i] = "\n" /\ \A j \in 1..(i - 1) : s[j] # "\n"
         IN  <<SubSeq(s, 1, k - 1)>> \o SplitLines(SubSeq(s, k + 1, Len(s)))

\* processor.go:117-126  the loop over contentLines; i is the Go index
RECURSIVE DiffLoop(_, _, _, _)
DiffLoop(remoteContentLines, contentLines, i, acc) ==
    IF i >= Len(contentLines) THEN acc
    ELSE IF i >= Len(remoteContentLines)
         THEN acc + (Len(remoteContentLines) - i)
    ELSE DiffLoop(remoteContentLines, contentLines, i + 1,
                  IF contentLines[i + 1] # remoteContentLines[i + 1]
                  THEN acc + 1 ELSE acc)

\* processor.go:113-127  the number printUpdateFileDryRun logs
LinesOfDiff(remoteContent, content) ==
    DiffLoop(SplitLines(remoteContent), SplitLines(content), 0, 0)

----------------------------------------------------------------------------
(* Processor *)

MainThread == "main"
FileNames == {"f1", "f2"}

ContentA == <<"a">>
ContentAX == <<"a", "\n", "x">>
\* local file contents and decoded remote contents
FileContents == {ContentA, ContentAX}
Shas == {"s1", "s2"}

\* responses of Repositories.GetContents: a file (whose content may fail to
\* decode), not found, another status, or no response at all
ReadResponses ==
    [status : {200}, content : FileContents, decodeOk : BOOLEAN, sha : Shas]
    \cup [status : {404, 403, NilResp}, content : {EmptyStr}, decodeOk : {FALSE}, sha : {""}]

\* statuses of Repositories.CreateFile; err is nil exactly for 200
WriteStatuses == {200, 409, 422, NilResp}

\* a fallback that writes the file before it clones
GitStepsWriteFirst ==
    <<"RemoveAll", "MkdirAll", "WriteFile", "clone", "add", "commit", "push">>

\* the steps of updateFileViaGit, in the order of the code
GitSteps == <<"RemoveAll", "MkdirAll", "clone", "WriteFile", "add", "commit", "push">>

\* file.Dest as path elements: a file at the root of the repository, and one
\* inside a directory
DestRoot == <<"f">>
DestNested == <<"d", "f">>
Dests == {DestRoot, DestNested}

\* path.Dir of a destination
DestParent(dest) == SubSeq(dest, 1, Len(dest) - 1)

\* the directories a fresh clone may hold: its root, with or without "d"
CloneDirs == { {<<>>}, {<<>>, <<"d">>} }

\* processor.go:217  os.WriteFile creates the file, never a directory: it
\* fails when the parent directory is missing (and may fail otherwise too)
WriteFileOutcomes(dest, dirs) ==
    IF DestParent(dest) \in dirs THEN BOOLEAN ELSE {FALSE}

NoUnit ==
    [ owner |-> "", repo |-> EmptyStr, dest |-> <<>>, dirs |-> {},
      content |-> EmptyStr, status |-> NilResp, remoteContent |-> EmptyStr,
      decodeOk |-> FALSE, sha |-> "",
      decision |-> "none", primary |-> <<>>, fallbacks |-> 0, git |-> <<>> ]

\* a processor that writes in dry-run mode too
DecideIgnoringDryRun(resp, content, dry) ==
    IF resp.status = 200
    THEN IF resp.decodeOk /\ resp.content = content THEN "skip" ELSE "update"
    ELSE IF resp.status = 404 THEN "create"
    ELSE "error"

\* a processor that does not compare the contents
DecideWithoutCompare(resp, content, dry) ==
    IF resp.status = 200
    THEN IF dry THEN "dryUpdate" ELSE "update"
    ELSE IF resp.status = 404
         THEN IF dry THEN "dryCreate" ELSE "create"
    ELSE "error"

\* a processor whose dry run passes over a read that failed
DecideDryIgnoresErrors(resp, content, dry) ==
    IF resp.status = 200
    THEN IF resp.decodeOk /\ resp.content = content THEN "skip"
         ELSE IF dry THEN "dryUpdate" ELSE "update"
    ELSE IF resp.status = 404
         THEN IF dry THEN "dryCreate" ELSE "create"
    ELSE IF dry THEN "skip" ELSE "error"

\* processor.go:74-103  what the callback does with a response that is not nil
Decide(resp, content, dry) ==
    IF resp.status = 200
    THEN IF resp.decodeOk /\ resp.content = content THEN "skip"
         ELSE IF dry THEN "dryUpdate" ELSE "update"
    ELSE IF resp.status = 404
         THEN IF dry THEN "dryCreate" ELSE "create"
    ELSE "error"

\* a writer that gives up on a conflict
PrimaryOutcomeNoFallback(status) ==
    IF status = 200 THEN "ok" ELSE "error"

\* processor.go:141-150, 163-172  what follows the primary write call
PrimaryOutcome(status) ==
    IF status = 409 THEN "fallback"
    ELSE IF status # 200 THEN "error"
    ELSE "ok"

\* an applyToAllRepos that goes on to the next repository after an error
AfterUnitContinue(err) == [pc |-> "repos", repoIdx |-> repoIdx + 1]

\* processor.go:258-261, 106-108, 47-49  the callback returned: an error ends
\* applyToAllRepos, ProcessFile and ProcessFiles; nil moves on to the next repo
AfterUnit(err) ==
    IF err THEN [pc |-> "failed", repoIdx |-> repoIdx]
    ELSE [pc |-> "repos", repoIdx |-> repoIdx + 1]

\* an applyToAllRepos without the only-repo filter
PassesFilterAlways(repo) == TRUE

\* processor.go:257  the only-repo filter
PassesFilter(repo) == Len(onlyRepo) = 0 \/ (Len(onlyRepo) > 0 /\ repo = onlyRepo)

\* the callback returns err (or nil) to applyToAllRepos
UnitReturns(err) ==
    /\ pc' = AfterUnit(err).pc
    /\ repoIdx' = AfterUnit(err).repoIdx
    /\ nFailed' = IF err THEN nFailed + 1 ELSE nFailed

\* processor.go:43-52  the range over config.File picks the next file (map
\* order is not fixed), or ProcessFiles returns nil
ProcessFilesNext ==
    /\ ~crashed
    /\ pc = "files"
    /\ IF filesLeft = {}
       THEN /\ pc' = "done"
            /\ UNCHANGED <<filesLeft, curFile, remoteIdx>>
       ELSE \E f \in filesLeft :
               /\ filesLeft' = filesLeft \ {f}
               /\ curFile' = f
               /\ remoteIdx' = 1
               /\ pc' = "remote"
    /\ UNCHANGED <<dryRun, onlyRepo, fileCfg, repoIdx, cur, unit, visited, reconciled, nFailed,
                   wrote, diffArgs, linesOfDiff>>
    /\ UNCHANGED resolverVars

\* processor.go:61-72, 249-250  the next remote of the file: look it up, read
\* the local file, call ResolveRemote; after the last remote ProcessFile returns
ProcessFileNextRemote ==
    /\ ~crashed
    /\ pc = "remote"
    /\ IF remoteIdx > Len(fileCfg[curFile].Remotes)
       THEN /\ pc' = "files"
            /\ UNCHANGED <<rs, visited, nFailed>>
       ELSE LET remoteName == fileCfg[curFile].Remotes[remoteIdx] IN
            \E readOk \in BOOLEAN :
               IF remoteName \notin DOMAIN remoteCfg \/ ~readOk
               THEN \* processor.go:64, 69  no tuple was reached
                    /\ pc' = "failedLocal"
                    /\ UNCHANGED <<rs, visited, nFailed>>
               ELSE /\ rs' = BeginResolve(MainThread, remoteName)
                    /\ visited' = visited \cup {<<curFile, remoteIdx>>}
                    /\ pc' = "resolve"
                    /\ UNCHANGED nFailed
    /\ UNCHANGED <<dryRun, onlyRepo, fileCfg, filesLeft, curFile, remoteIdx, repoIdx,
                   cur, unit, reconciled, wrote, diffArgs, linesOfDiff>>
    /\ UNCHANGED <<ghRepos, remoteCfg, resolved, mainLock, remoteLocks, hist, crashed>>

\* processor.go:250-254  ResolveRemote returned to applyToAllRepos
ApplyResolved ==
    /\ ~crashed
    /\ pc = "resolve"
    /\ rs[MainThread].pc = "returned"
    /\ rs' = [rs EXCEPT ![MainThread].pc = "idle"]
    /\ IF rs[MainThread].ok
       THEN /\ cur' = rs[MainThread].ret
            /\ repoIdx' = 1
            /\ reconciled' = <<>>
            /\ pc' = "repos"
            /\ UNCHANGED nFailed
       ELSE /\ pc' = "failed"
            /\ nFailed' = nFailed + 1
            /\ UNCHANGED <<cur, repoIdx, reconciled>>
    /\ UNCHANGED <<dryRun, onlyRepo, fileCfg, filesLeft, curFile, remoteIdx, unit,
                   visited, wrote, diffArgs, linesOfDiff>>
    /\ UNCHANGED <<ghRepos, remoteCfg, resolved, mainLock, remoteLocks, hist, crashed>>

\* processor.go:256-264  the loop over resolved.Repos with the only-repo filter
ApplyNextRepo ==
    /\ ~crashed
    /\ pc = "repos"
    /\ IF repoIdx > Len(cur.Repos)
       THEN /\ remoteIdx' = remoteIdx + 1
            /\ pc' = "remote"
            /\ UNCHANGED <<repoIdx, unit, reconciled>>
       ELSE IF PassesFilter(cur.Repos[repoIdx])
       THEN \* processor.go:258  f(resolved.Owner, repo)
            /\ pc' = "read"
            /\ unit' = [NoUnit EXCEPT !.content = fileCfg[curFile].Content,
                                      !.dest = fileCfg[curFile].Dest,
                                      !.owner = cur.Owner,
                                      !.repo = cur.Repos[repoIdx]]
            /\ reconciled' = Append(reconciled, cur.Repos[repoIdx])
            /\ UNCHANGED <<remoteIdx, repoIdx>>
       ELSE /\ repoIdx' = repoIdx + 1
            /\ UNCHANGED <<pc, remoteIdx, unit, reconciled>>
    /\ UNCHANGED <<dryRun, onlyRepo, fileCfg, filesLeft, curFile, cur, visited, nFailed,
                   wrote, diffArgs, linesOfDiff>>
    /\ UNCHANGED resolverVars

\* processor.go:73-105  the callback: read the remote content and decide
GetContents ==
    /\ ~crashed
    /\ pc = "read"
    /\ \E resp \in ReadResponses :
         LET content == unit.content
             \* GetContent returns "" together with its error
             remoteContent == IF resp.decodeOk THEN resp.content ELSE EmptyStr
             decision == Decide(resp, content, dryRun)
             read == [unit EXCEPT !.status = resp.status, !.remoteContent = remoteContent,
                                  !.decodeOk = resp.decodeOk, !.sha = resp.sha]
         IN
         IF resp.status = NilResp
         THEN \* resp is nil: resp.StatusCode at line 74 panics
              /\ crashed' = TRUE
              /\ unit' = [read EXCEPT !.decision = "panic"]
              /\ UNCHANGED <<pc, repoIdx, nFailed, diffArgs, linesOfDiff>>
         ELSE /\ unit' = [read EXCEPT !.decision = decision]
              /\ UNCHANGED crashed
              /\ CASE decision = "skip" ->
                        UnitReturns(FALSE) /\ UNCHANGED <<diffArgs, linesOfDiff>>
                   [] decision = "dryUpdate" ->
                        /\ diffArgs' = [remoteContent |-> remoteContent, content |-> content]
                        /\ linesOfDiff' = LinesOfDiff(remoteContent, content)
                        /\ UnitReturns(FALSE)
                   [] decision = "dryCreate" ->
                        UnitReturns(FALSE) /\ UNCHANGED <<diffArgs, linesOfDiff>>
                   [] decision = "update" ->
                        /\ pc' = "update"
                        /\ UNCHANGED <<repoIdx, nFailed, diffArgs, linesOfDiff>>
                   [] decision = "create" ->
                        /\ pc' = "create"
                        /\ UNCHANGED <<repoIdx, nFailed, diffArgs, linesOfDiff>>
                   [] OTHER ->
                        UnitReturns(TRUE) /\ UNCHANGED <<diffArgs, linesOfDiff>>
    /\ UNCHANGED <<dryRun, onlyRepo, fileCfg, filesLeft, curFile, remoteIdx, cur, visited, reconciled,
                   wrote>>
    /\ UNCHANGED <<ghRepos, remoteCfg, resolved, mainLock, remoteLocks, rs, hist>>

\* a writer that sends no revision token at all
CallShaNone(kind, sha) == ""

\* processor.go:86, 136-140  updateFile sends the SHA of the content just read;
\* processor.go:96, 158-161  createFile sends none
CallSha(kind, sha) == IF kind = "update" THEN sha ELSE ""

\* processor.go:130-151 (kind "update", with the SHA read) and 153-173 (kind
\* "create", without): the primary write call and what follows it; on a
\* conflict updateFileViaGit is entered (processor.go:175-179)
PrimaryWrite(kind) ==
    /\ ~crashed
    /\ \E status \in WriteStatuses :
         LET call == [kind |-> kind, sha |-> CallSha(kind, unit.sha), status |-> status]
             outcome == PrimaryOutcome(status)
         IN
         /\ wrote' = TRUE
         /\ IF status = NilResp
            THEN \* resp is nil: resp.StatusCode at line 141 / 163 panics
                 /\ crashed' = TRUE
                 /\ unit' = [unit EXCEPT !.primary = Append(@, call)]
                 /\ UNCHANGED <<pc, repoIdx, nFailed>>
            ELSE /\ UNCHANGED crashed
                 /\ CASE outcome = "fallback" ->
                           /\ unit' = [unit EXCEPT !.primary = Append(@, call),
                                                   !.fallbacks = @ + 1]
                           /\ IF dryRun
                              THEN UnitReturns(FALSE)
                              ELSE /\ pc' = "git"
                                   /\ UNCHANGED <<repoIdx, nFailed>>
                      [] outcome = "error" ->
                           /\ unit' = [unit EXCEPT !.primary = Append(@, call)]
                           /\ UnitReturns(TRUE)
                      [] OTHER ->
                           /\ unit' = [unit EXCEPT !.primary = Append(@, call)]
                           /\ UnitReturns(FALSE)
    /\ UNCHANGED <<dryRun, onlyRepo, fileCfg, filesLeft, curFile, remoteIdx, cur, visited,
                   reconciled, diffArgs, linesOfDiff>>
    /\ UNCHANGED <<ghRepos, remoteCfg, resolved, mainLock, remoteLocks, rs, hist>>

\* processor.go:86, 130-151
UpdateFile ==
    /\ pc = "update"
    /\ PrimaryWrite("update")

\* processor.go:96, 153-173
CreateFile ==
    /\ pc = "create"
    /\ PrimaryWrite("create")

\* processor.go:181-247  the next step of cloneRepo, writeFileToRepo, pushRepo;
\* a step that fails returns its error, the last one returns nil
FallbackStep ==
    /\ ~crashed
    /\ pc = "git"
    /\ LET step == GitSteps[Len(unit.git) + 1] IN
       \E ok \in (IF step = "WriteFile" THEN WriteFileOutcomes(unit.dest, unit.dirs)
                  ELSE BOOLEAN) :
       \E dirs \in (IF step = "clone" /\ ok THEN CloneDirs ELSE {unit.dirs}) :
         /\ unit' = [unit EXCEPT !.git = Append(@, [step |-> step, ok |-> ok]),
                                 !.dirs = dirs]
         /\ wrote' = TRUE
         /\ IF ~ok THEN UnitReturns(TRUE)
            ELSE IF Len(unit.git) + 1 = Len(GitSteps) THEN UnitReturns(FALSE)
            ELSE UNCHANGED <<pc, repoIdx, nFailed>>
    /\ UNCHANGED <<dryRun, onlyRepo, fileCfg, filesLeft, curFile, remoteIdx, cur, visited,
                   reconciled, diffArgs, linesOfDiff>>
    /\ UNCHANGED resolverVars

\* a processor that is not running (the resolver is used on its own)
ProcessorOff ==
    /\ dryRun = TRUE
    /\ onlyRepo = EmptyStr
    /\ fileCfg = [f \in {} |-> 0]
    /\ pc = "off"
    /\ filesLeft = {}
    /\ curFile = ""
    /\ remoteIdx = 0
    /\ repoIdx = 0
    /\ cur = NilResolved
    /\ unit = NoUnit
    /\ visited = {}
    /\ reconciled = <<>>
    /\ nFailed = 0
    /\ wrote = FALSE
    /\ diffArgs = [remoteContent |-> EmptyStr, content |-> EmptyStr]
    /\ linesOfDiff = NoReport

----------------------------------------------------------------------------
(* Callers of the resolver alone: threads that call ResolveRemote with the *)
(* configured remotes.                                                     *)

\* a thread calls ResolveRemote(config.Remote[name], name)
ResolveCall(t) ==
    /\ ~crashed
    /\ UNCHANGED procVars
    /\ rs[t].pc \in {"idle", "returned"}
    /\ Len(hist[t]) < MaxCalls
    /\ \E name \in RemoteNames : rs' = BeginResolve(t, name)
    /\ UNCHANGED <<ghRepos, remoteCfg, resolved, mainLock, remoteLocks, hist, crashed>>

\* resolver.go:39-40 against 48: a thread reads the lock map outside the outer
\* lock while another thread inserts into it; the Go runtime may end the process
\* with "concurrent map read and map write"
MapRace(t) ==
    /\ ~crashed
    /\ UNCHANGED procVars
    /\ rs[t].pc = "lockRemote"
    /\ \E u \in DOMAIN rs : /\ u # t
                            /\ rs[u].pc = "ensureBody"
                            /\ rs[u].name \notin DOMAIN remoteLocks
    /\ crashed' = TRUE
    /\ UNCHANGED <<ghRepos, remoteCfg, resolved, mainLock, remoteLocks, rs, hist>>

\* the locks thread t holds: the outer lock and per-name mutexes
LocksHeld(t) ==
    (IF mainLock = t THEN {"mainLock"} ELSE {})
    \cup { n \in DOMAIN remoteLocks : remoteLocks[n] = t }

\* the map accesses thread t is about to make at its position:
\* resolver.go:39 reads the lock map and line 40 writes it, inside the outer
\* lock; line 48 reads it before any lock is taken and line 49 (the receiver of
\* the deferred Unlock) once the per-name mutex is held; line 51 reads the
\* result map and line 93 writes it, both under the per-name mutex only
Reads(t, m) ==
    \/ m = "remoteLocks" /\ rs[t].pc \in {"ensureBody", "lockRemote", "checkCache"}
    \/ m = "resolved" /\ rs[t].pc = "checkCache"

Writes(t, m) ==
    \/ m = "remoteLocks" /\ rs[t].pc = "ensureBody"
                         /\ rs[t].name \notin DOMAIN remoteLocks
    \/ m = "resolved" /\ rs[t].pc = "store"

\* two accesses to one map, one of them a write, with no lock in common
Races(t, u, m) ==
    /\ t # u
    /\ Writes(t, m)
    /\ Reads(u, m) \/ Writes(u, m)
    /\ LocksHeld(t) \cap LocksHeld(u) = {}

\* resolver.go:93 against 51 and 93: a thread writes the result map under its
\* per-name mutex while a thread holding another name's mutex reads or writes
\* it; the Go runtime may end the process with "concurrent map writes" or
\* "concurrent map read and map write"
ResolvedRace(t) ==
    /\ ~crashed
    /\ UNCHANGED procVars
    /\ \E u \in DOMAIN rs : Races(t, u, "resolved")
    /\ crashed' = TRUE
    /\ UNCHANGED <<ghRepos, remoteCfg, resolved, mainLock, remoteLocks, rs, hist>>

Reverse(s) == [i \in 1..Len(s) |-> s[Len(s) + 1 - i]]

\* the organization holds any repositories; the user holds the same ones, listed
\* in the opposite order
Worlds(n) == { [o \in Owners |-> IF o = "Acme" THEN w ELSE Reverse(w)] :
                 w \in SeqsUpTo(Entries, n) }

InitResolverState(threads) ==
    /\ resolved = EmptyMap
    /\ mainLock = NoThread
    /\ remoteLocks = [n \in {} |-> NoThread]
    /\ rs = [t \in threads |-> IdleThread]
    /\ hist = [t \in threads |-> <<>>]
    /\ crashed = FALSE

SeqThreads == {"t1"}

\* one thread, every validated RemoteSpec for r1, every listing
InitSeq ==
    /\ ghRepos \in Worlds(MaxRepos)
    /\ remoteCfg \in { [n \in RemoteNames |-> IF n = "r1" THEN r
                                              ELSE [r EXCEPT !.Repo = EmptyStr]] :
                         r \in RemoteSpecs }
    /\ InitResolverState(SeqThreads)
    /\ ProcessorOff

NextSeq ==
    \/ \E t \in SeqThreads : ResolveCall(t)
    \/ \E t \in SeqThreads : EnsureLockAcquire(t)
    \/ \E t \in SeqThreads : EnsureLockBody(t)
    \/ \E t \in SeqThreads : LockRemote(t)
    \/ \E t \in SeqThreads : CheckCache(t)
    \/ \E t \in SeqThreads : SelectPolicy(t)
    \/ \E t \in SeqThreads : ListPage(t)
    \/ \E t \in SeqThreads : CollectNames(t)
    \/ \E t \in SeqThreads : StoreAndReturn(t)

SpecSeq == InitSeq /\ [][NextSeq]_vars

----------------------------------------------------------------------------
(* Two threads calling ResolveRemote concurrently *)

Threads == {"t1", "t2"}

ConcurrentWorlds ==
    { [o \in Owners |-> IF o = "Acme" THEN w ELSE Reverse(w)] :
        w \in { << [Name |-> NameA, Archived |-> FALSE] >>,
                << [Name |-> NameA, Archived |-> FALSE],
                   [Name |-> NameB, Archived |-> TRUE],
                   [Name |-> NameC, Archived |-> FALSE] >> } }

\* an explicit repo, a glob over an organization, everything of a user
ConcurrentSpecs ==
    { r \in RemoteSpecs :
        /\ Len(r.Repos) = 0
        /\ \/ Len(r.Repo) > 0 /\ r.Org # "" /\ Len(r.RepoGlob) = 0 /\ Len(r.ExcludeRepos) = 0
           \/ Len(r.Repo) = 0 /\ r.Org # "" /\ r.RepoGlob = <<"*", ".", "j">>
                              /\ Len(r.ExcludeRepos) = 0
           \/ Len(r.Repo) = 0 /\ r.User # "" /\ Len(r.RepoGlob) = 0
                              /\ Len(r.ExcludeRepos) > 0 }

InitResolver ==
    /\ ghRepos \in ConcurrentWorlds
    /\ remoteCfg \in [RemoteNames -> ConcurrentSpecs]
    /\ InitResolverState(Threads)
    /\ ProcessorOff

NextResolver ==
    \/ \E t \in Threads : ResolveCall(t)
    \/ \E t \in Threads : EnsureLockAcquire(t)
    \/ \E t \in Threads : EnsureLockBody(t)
    \/ \E t \in Threads : LockRemote(t)
    \/ \E t \in Threads : CheckCache(t)
    \/ \E t \in Threads : SelectPolicy(t)
    \/ \E t \in Threads : ListPage(t)
    \/ \E t \in Threads : CollectNames(t)
    \/ \E t \in Threads : StoreAndReturn(t)
    \/ \E t \in Threads : MapRace(t)
    \/ \E t \in Threads : ResolvedRace(t)

SpecResolver == InitResolver /\ [][NextResolver]_vars

\* one platform and one configuration: a glob over the organization (two
\* pages) for r1, everything of the user but the excluded for r2
InitLive ==
    /\ ghRepos = [o \in Owners |->
                    LET w == << [Name |-> NameA, Archived |-> FALSE],
                                [Name |-> NameB, Archived |-> TRUE],
                                [Name |-> NameC, Archived |-> FALSE] >>
                    IN  IF o = "Acme" THEN w ELSE Reverse(w)]
    /\ remoteCfg \in { c \in [RemoteNames -> ConcurrentSpecs] :
                          /\ Policy(c["r1"]) = "glob"
                          /\ Policy(c["r2"]) = "all" }
    /\ InitResolverState(Threads)
    /\ ProcessorOff

\* a thread that is inside ResolveRemote goes on running: the scheduler lets
\* it take a free lock, and every listing request is answered
FairResolver ==
    \A t \in Threads :
        /\ WF_vars(EnsureLockAcquire(t))
        /\ WF_vars(EnsureLockBody(t))
        /\ WF_vars(LockRemote(t))
        /\ WF_vars(CheckCache(t))
        /\ WF_vars(SelectPolicy(t))
        /\ WF_vars(ListPage(t))
        /\ WF_vars(CollectNames(t))
        /\ WF_vars(StoreAndReturn(t))

SpecLive == InitLive /\ [][NextResolver]_vars /\ FairResolver

----------------------------------------------------------------------------
(* A caller of the resolver that is free in the arguments: ResolveRemote   *)
(* takes the selector and the name separately (resolver.go:44), so the     *)
(* same name may arrive with different selectors.                          *)

\* a configured list may name a repository twice: nothing validates it
DupList == <<NameB, NameB>>

\* a selector with both owner fields set: validateRemotes rejects it in the
\* configuration, ResolveRemote itself accepts it
BothOwners ==
    [ Org |-> "Acme", User |-> "bob", Repo |-> EmptyStr, Repos |-> <<>>,
      RepoGlob |-> EmptyStr, ExcludeRepos |-> <<>> ]

\* an explicit repo, an explicit list (also one with a repeated name), a
\* glob, everything but the excluded, everything of a selector with two owners
AnySelectors ==
    {BothOwners}
    \cup
    { [r EXCEPT !.Repos = DupList] :
        r \in { q \in RemoteSpecs : /\ q.Org # "" /\ Len(q.Repos) > 0 /\ Len(q.Repo) = 0
                                    /\ Len(q.RepoGlob) = 0 /\ Len(q.ExcludeRepos) = 0 } }
    \cup
    { r \in RemoteSpecs :
        /\ r.Org # ""
        /\ \/ Len(r.Repo) > 0 /\ Len(r.Repos) = 0 /\ Len(r.RepoGlob) = 0
                              /\ Len(r.ExcludeRepos) = 0
           \/ Len(r.Repo) = 0 /\ Len(r.Repos) > 0 /\ Len(r.RepoGlob) = 0
                              /\ Len(r.ExcludeRepos) = 0
           \/ Len(r.Repo) = 0 /\ Len(r.Repos) = 0 /\ r.RepoGlob = <<"*", ".", "j">>
                              /\ Len(r.ExcludeRepos) = 0
           \/ Len(r.Repo) = 0 /\ Len(r.Repos) = 0 /\ Len(r.RepoGlob) = 0
                              /\ Len(r.ExcludeRepos) > 0 }

\* a thread calls ResolveRemote(remote, name) with any selector
ResolveCallAny(t) ==
    /\ ~crashed
    /\ UNCHANGED procVars
    /\ rs[t].pc \in {"idle", "returned"}
    /\ Len(hist[t]) < MaxCalls
    /\ \E name \in RemoteNames : \E remote \in AnySelectors :
         rs' = [rs EXCEPT ![t] = [IdleThread EXCEPT !.pc = "ensureLock", !.name = name,
                                                    !.remote = remote]]
    /\ UNCHANGED <<ghRepos, remoteCfg, resolved, mainLock, remoteLocks, hist, crashed>>

InitAny ==
    /\ ghRepos \in ConcurrentWorlds
    /\ remoteCfg = [n \in RemoteNames |-> CHOOSE r \in AnySelectors : TRUE]
    /\ InitResolverState(SeqThreads)
    /\ ProcessorOff

NextAny ==
    \/ \E t \in SeqThreads : ResolveCallAny(t)
    \/ \E t \in SeqThreads : EnsureLockAcquire(t)
    \/ \E t \in SeqThreads : EnsureLockBody(t)
    \/ \E t \in SeqThreads : LockRemote(t)
    \/ \E t \in SeqThreads : CheckCache(t)
    \/ \E t \in SeqThreads : SelectPolicy(t)
    \/ \E t \in SeqThreads : ListPage(t)
    \/ \E t \in SeqThreads : CollectNames(t)
    \/ \E t \in SeqThreads : StoreAndReturn(t)

SpecAny == InitAny /\ [][NextAny]_vars

----------------------------------------------------------------------------
(* The run of ProcessFiles *)

\* an explicit list, a glob over an organization, everything of a user
ProcessorSpecs ==
    { r \in RemoteSpecs :
        /\ Len(r.Repo) = 0
        /\ \/ Len(r.Repos) > 0 /\ r.Org # "" /\ Len(r.RepoGlob) = 0 /\ Len(r.ExcludeRepos) = 0
           \/ Len(r.Repos) = 0 /\ r.Org # "" /\ r.RepoGlob = <<"*", ".", "j">>
                               /\ Len(r.ExcludeRepos) = 0
           \/ Len(r.Repos) = 0 /\ r.User # "" /\ Len(r.RepoGlob) = 0
                               /\ Len(r.ExcludeRepos) > 0 }

FileSpecs ==
    { c \in [FileNames -> [Content : FileContents, Dest : Dests,
                           Remotes : {<<"r1">>, <<"r2", "r1">>}]] :
        /\ c["f2"].Content = ContentA /\ c["f2"].Remotes = <<"r1">>
        /\ c["f2"].Dest = DestRoot }

Init ==
    /\ ghRepos \in ConcurrentWorlds
    /\ remoteCfg \in [RemoteNames -> ProcessorSpecs]
    /\ InitResolverState({MainThread})
    /\ dryRun \in BOOLEAN
    /\ onlyRepo \in {EmptyStr, NameA}
    /\ fileCfg \in FileSpecs
    /\ pc = "files"
    /\ filesLeft = FileNames
    /\ curFile = ""
    /\ remoteIdx = 0
    /\ repoIdx = 0
    /\ cur = NilResolved
    /\ unit = NoUnit
    /\ visited = {}
    /\ reconciled = <<>>
    /\ nFailed = 0
    /\ wrote = FALSE
    /\ diffArgs = [remoteContent |-> EmptyStr, content |-> EmptyStr]
    /\ linesOfDiff = NoReport

Next ==
    \/ ProcessFilesNext
    \/ ProcessFileNextRemote
    \/ EnsureLockAcquire(MainThread)
    \/ EnsureLockBody(MainThread)
    \/ LockRemote(MainThread)
    \/ CheckCache(MainThread)
    \/ SelectPolicy(MainThread)
    \/ ListPage(MainThread)
    \/ CollectNames(MainThread)
    \/ StoreAndReturn(MainThread)
    \/ ApplyResolved
    \/ ApplyNextRepo
    \/ GetContents
    \/ UpdateFile
    \/ CreateFile
    \/ FallbackStep

Spec == Init /\ [][Next]_vars

----------------------------------------------------------------------------
(* printUpdateFileDryRun on its own *)

ContentChars == {"a", "x", "\n"}

\* processor.go:83, 113-127  the dry-run report of one differing file
PrintUpdateFileDryRun ==
    /\ pc = "dryReport"
    /\ linesOfDiff' = LinesOfDiff(diffArgs.remoteContent, diffArgs.content)
    /\ pc' = "reported"
    /\ UNCHANGED <<dryRun, onlyRepo, fileCfg, filesLeft, curFile, remoteIdx, repoIdx,
                   cur, unit, visited, reconciled, nFailed, wrote, diffArgs>>
    /\ UNCHANGED resolverVars

InitDiff ==
    /\ ghRepos = [o \in Owners |-> <<>>]
    /\ remoteCfg = [n \in {} |-> 0]
    /\ InitResolverState({})
    /\ dryRun = TRUE
    /\ onlyRepo = EmptyStr
    /\ fileCfg = [f \in {} |-> 0]
    /\ pc = "dryReport"
    /\ filesLeft = {}
    /\ curFile = ""
    /\ remoteIdx = 0
    /\ repoIdx = 0
    /\ cur = NilResolved
    /\ unit = NoUnit
    /\ visited = {}
    /\ reconciled = <<>>
    /\ nFailed = 0
    /\ wrote = FALSE
    \* processor.go:77-83  the report is made for contents that differ, or for a
    \* remote content that failed to decode and is then empty
    /\ diffArgs \in { d \in [remoteContent : SeqsUpTo(ContentChars, MaxLen),
                             content : SeqsUpTo(ContentChars, MaxLen)] :
                        d.remoteContent # d.content \/ d.remoteContent = EmptyStr }
    /\ linesOfDiff = NoReport

NextDiff == PrintUpdateFileDryRun

SpecDiff == InitDiff /\ [][NextDiff]_vars

\* the lines of a content, stated by the positions of its newlines
NumLines(s) == 1 + Cardinality({i \in 1..Len(s) : s[i] = "\n"})

NthNewline(s, k) ==
    IF k = 0 THEN 0
    ELSE IF k = NumLines(s) THEN Len(s) + 1
    ELSE CHOOSE i \in 1..Len(s) :
            s[i] = "\n" /\ Cardinality({j \in 1..i : s[j] = "\n"}) = k

LineOf(s, k) == SubSeq(s, NthNewline(s, k - 1) + 1, NthNewline(s, k) - 1)

Min(a, b) == IF a <= b THEN a ELSE b

Abs(a) == IF a >= 0 THEN a ELSE 0 - a

\* the aligned positions whose lines differ, plus the lines left over on the
\* longer side
ClaimedDiff(remoteContent, content) ==
    Cardinality({k \in 1..Min(NumLines(remoteContent), NumLines(content)) :
                    LineOf(remoteContent, k) # LineOf(content, k)})
    + Abs(NumLines(remoteContent) - NumLines(content))

\* C10: the reported number of differing lines is the number of aligned line
\* positions whose lines differ plus the number of leftover lines of the longer
\* content
C10_DiffCount ==
    pc = "reported" =>
        linesOfDiff = ClaimedDiff(diffArgs.remoteContent, diffArgs.content)

----------------------------------------------------------------------------
(* Properties of the run (Spec) *)

\* the callback has returned for the current (file, repository)
UnitOver == pc \in {"repos", "failed"} /\ unit.decision # "none"

\* C1: with dry-run on, no primary write call and no fallback step is ever made,
\* whatever the content reads return
C1_DryRunPurity ==
    dryRun => /\ ~wrote
              /\ unit.primary = <<>> /\ unit.git = <<>> /\ unit.fallbacks = 0
              /\ pc \notin {"update", "create", "git"}

\* a dry run that found a differing remote file and reported on it
C1_Witness ==
    /\ dryRun /\ UnitOver
    /\ unit.status = 200 /\ unit.decodeOk
    /\ unit.remoteContent # unit.content
    /\ unit.decision = "dryUpdate"
    /\ linesOfDiff # NoReport

\* the content read of the current unit succeeded and is equal to the local content
ReadEqual ==
    /\ unit.status = 200 /\ unit.decodeOk
    /\ unit.remoteContent = unit.content

\* C2: a repository whose content is read successfully and is equal to the
\* desired content gets no write call, dry-run or not
C2_NoOpWhenEqual ==
    ReadEqual =>
        /\ unit.primary = <<>> /\ unit.git = <<>> /\ unit.fallbacks = 0
        /\ pc \notin {"update", "create", "git"}
        /\ unit.decision = "skip"

\* a real run that skipped an unchanged repository
C2_Witness ==
    /\ ~dryRun /\ UnitOver /\ ReadEqual
    /\ unit.decision = "skip" /\ pc = "repos"

\* the primary write of the current unit was answered with a conflict
Conflicted == \E i \in 1..Len(unit.primary) : unit.primary[i].status = 409

\* C3: after a conflict on the primary write (update or create) the fallback
\* sequence is entered exactly once and attempted, and the primary write is
\* never called a second time for the unit
C3_ConflictFallback ==
    /\ Len(unit.primary) <= 1
    /\ unit.fallbacks <= 1
    /\ Conflicted =>
          /\ unit.fallbacks = 1
          /\ pc \notin {"update", "create"}
          /\ pc # "git" => Len(unit.git) >= 1
    /\ \A i \in 1..Len(unit.git) : unit.git[i].step = GitSteps[i]

\* an update met a conflict and the fallback ran to its last step
C3_Witness ==
    /\ Conflicted /\ unit.primary[1].kind = "update"
    /\ unit.fallbacks = 1 /\ Len(unit.primary) = 1
    /\ Len(unit.git) = Len(GitSteps) /\ unit.git[Len(GitSteps)].ok
    /\ pc = "repos"

\* every (file, remote) of the configuration had its resolution asked for
WholeWorkload ==
    \A f \in FileNames : \A i \in 1..Len(fileCfg[f].Remotes) : <<f, i>> \in visited

----------------------------------------------------------------------------
(* Properties of concurrent calls (SpecResolver) *)

\* both threads made exactly one call, for the same remote name, whose selector
\* needs a listing, and both calls have returned
BothFirstCallsReturned ==
    /\ \A t \in Threads : Len(hist[t]) = 1 /\ rs[t].pc = "returned"
    /\ hist["t1"][1].name = hist["t2"][1].name
    /\ Policy(hist["t1"][1].remote) \in {"glob", "all"}

\* C4 as claimed: two concurrent calls for the same, not yet memoized remote
\* name perform exactly one listing in total and return the same repositories
C4_OneListingAlways ==
    BothFirstCallsReturned =>
        /\ hist["t1"][1].listings + hist["t2"][1].listings = 1
        /\ hist["t1"][1].ok /\ hist["t2"][1].ok
        /\ hist["t1"][1].res = hist["t2"][1].res

\* C4 amended: if no listing fails, exactly one listing is performed in total
\* and both calls return the same repositories; a failed listing is not
\* memoized, so a call whose listing fails returns an error after its one
\* listing and the other call performs its own: the listings performed are the
\* failed ones plus at most one that succeeds
C4_OneListingUnlessFailed ==
    BothFirstCallsReturned =>
        LET h1 == hist["t1"][1]
            h2 == hist["t2"][1]
            failed == Cardinality({t \in Threads : ~hist[t][1].ok})
        IN  /\ (h1.ok /\ h2.ok) => /\ h1.listings + h2.listings = 1
                                   /\ h1.res = h2.res
            /\ \A t \in Threads : ~hist[t][1].ok => hist[t][1].listings = 1
            /\ h1.listings + h2.listings = failed + (IF h1.ok \/ h2.ok THEN 1 ELSE 0)

\* the two calls overlapped, one listing was made and both got the same
\* two repositories
C4_Witness ==
    /\ BothFirstCallsReturned
    /\ \E t \in Threads : hist[t][1].contended
    /\ hist["t1"][1].ok /\ hist["t2"][1].ok
    /\ hist["t1"][1].listings + hist["t2"][1].listings = 1
    /\ hist["t1"][1].res = hist["t2"][1].res
    /\ Len(hist["t1"][1].res.Repos) = 2

----------------------------------------------------------------------------
(* Properties of ResolveRemote called in sequence (SpecSeq) *)

\* the calls that returned
Returned == { h \in UNION { {hist[t][i] : i \in 1..Len(hist[t])} : t \in DOMAIN hist } : TRUE }

\* two consecutive calls of one thread for the same remote name
SamePairs ==
    { <<hist[t][i], hist[t][i + 1]>> :
        <<t, i>> \in { x \in (DOMAIN hist) \X (1..MaxCalls + 1) :
                         /\ x[2] + 1 <= Len(hist[x[1]])
                         /\ hist[x[1]][x[2]].name = hist[x[1]][x[2] + 1].name } }

\* C5 as claimed: two calls in sequence for the same remote name return identical
\* results and perform at most one listing between them, whatever the listing does
C5_IdempotentAnyOutcome ==
    \A p \in SamePairs :
        /\ p[1].ok = p[2].ok
        /\ p[1].res = p[2].res
        /\ p[1].listings + p[2].listings <= 1

\* C5 amended: when the first of two calls in sequence for the same remote name
\* succeeds, the second returns the identical result without any listing (at
\* most one listing across both); when the first fails, nothing was memoized
\* and the second call starts its own listing whenever its selector needs one
C5_IdempotentAfterSuccess ==
    \A p \in SamePairs :
        /\ p[1].ok => /\ p[2].ok
                      /\ p[2].res = p[1].res
                      /\ p[2].listings = 0
                      /\ p[1].listings <= 1
        /\ ~p[1].ok => p[1].listings = 1 /\ p[2].listings = 1

C5_Witness ==
    \E p \in SamePairs :
        p[1].ok /\ p[1].listings = 1 /\ p[2].ok /\ Len(p[2].res.Repos) >= 2

\* C7: a call whose selector has neither an explicit repo nor an explicit list
\* returns only names of listed repositories that are not archived, and no
\* name of ExcludeRepos, with or without a glob
C7_NoArchivedNoExcluded ==
    \A h \in Returned :
        (h.ok /\ Len(h.remote.Repo) = 0 /\ Len(h.remote.Repos) = 0) =>
            \A k \in 1..Len(h.res.Repos) :
                /\ ~InSeq(h.res.Repos[k], h.remote.ExcludeRepos)
                /\ \E e \in Entries :
                      /\ InSeq(e, ghRepos[ListedOwner(h.remote)])
                      /\ e.Name = h.res.Repos[k]
                      /\ ~e.Archived

\* a listing of more than one page holding an archived and an excluded
\* repository, resolved to a result that is not empty
C7_Witness ==
    \E h \in Returned :
        LET world == ghRepos[ListedOwner(h.remote)] IN
        /\ h.ok /\ Len(h.remote.Repo) = 0 /\ Len(h.remote.Repos) = 0
        /\ h.listings = 1
        /\ Len(world) > PerPage
        /\ \E i \in 1..Len(world) : world[i].Archived
        /\ \E i \in 1..Len(world) : InSeq(world[i].Name, h.remote.ExcludeRepos)
        /\ Len(h.res.Repos) >= 1

\* C8: a call whose selector names an explicit repo returns the owner and the
\* one-element list of that repo and performs no listing, whatever the glob,
\* the explicit list and the excluded names are
C8_ExplicitRepo ==
    \A h \in Returned :
        Len(h.remote.Repo) > 0 =>
            /\ h.ok
            /\ h.res.Owner \in {h.remote.Org, h.remote.User} \ {""}
            /\ h.res.Repos = <<h.remote.Repo>>
            /\ h.listings = 0

C8_Witness ==
    \E h \in Returned :
        /\ Len(h.remote.Repo) > 0 /\ Len(h.remote.RepoGlob) > 0
        /\ Len(h.remote.Repos) > 0 /\ Len(h.remote.ExcludeRepos) > 0
        /\ h.ok /\ h.res.Repos = <<NameA>>

\* what a glob denotes, stated without recursion: the name splits into one
\* piece per pattern character, any piece for "*", one character for the rest
GlobDenotes(pattern, name) ==
    \E cut \in [0..Len(pattern) -> 0..Len(name)] :
        /\ cut[0] = 0
        /\ cut[Len(pattern)] = Len(name)
        /\ \A i \in 1..Len(pattern) :
              /\ cut[i - 1] <= cut[i]
              /\ pattern[i] # "*" =>
                    /\ cut[i] = cut[i - 1] + 1
                    /\ pattern[i] # "?" => name[cut[i]] = pattern[i]

\* the listed repositories a glob selector stands for, in listing order
GlobExpected(remote) ==
    LET keep(e) == /\ ~e.Archived
                   /\ ~InSeq(e.Name, remote.ExcludeRepos)
                   /\ GlobDenotes(remote.RepoGlob, e.Name)
        kept == SelectSeq(ghRepos[ListedOwner(remote)], keep)
    IN  [i \in 1..Len(kept) |-> kept[i].Name]

\* C9: a call whose selector has a glob and no explicit repo or list returns
\* exactly the names of the listed repositories that are not archived, not
\* excluded and matched by the glob
C9_GlobExact ==
    \A h \in Returned :
        (h.ok /\ Len(h.remote.Repo) = 0 /\ Len(h.remote.Repos) = 0
              /\ Len(h.remote.RepoGlob) > 0) =>
            h.res.Repos = GlobExpected(h.remote)

\* glob "*.j" over the listing [a.j, b.p, c.j] gives [a.j, c.j]
C9_Witness ==
    \E h \in Returned :
        /\ h.ok /\ h.listings = 1
        /\ Len(h.remote.Repo) = 0 /\ Len(h.remote.Repos) = 0
        /\ h.remote.RepoGlob = <<"*", ".", "j">>
        /\ ghRepos[ListedOwner(h.remote)] =
              << [Name |-> NameA, Archived |-> FALSE],
                 [Name |-> NameB, Archived |-> FALSE],
                 [Name |-> NameC, Archived |-> FALSE] >>
        /\ h.res.Repos = <<NameA, NameC>>

----------------------------------------------------------------------------
(* Properties of the memoized results (SpecAny) *)

\* C11: a result stored for a remote name is never replaced, modified or
\* removed by a later call, whatever selector the later call passes under that
\* name; so all successful calls for one name return the identical list
C11_CacheImmutable ==
    /\ [][\A n \in DOMAIN resolved :
             n \in DOMAIN resolved' /\ resolved'[n] = resolved[n]]_vars
    /\ [](\A h1 \in Returned : \A h2 \in Returned :
             (h1.name = h2.name /\ h1.ok /\ h2.ok) => h1.res = h2.res)

\* a second call under the same name with a selector that denotes other
\* repositories returned the list stored by the first call
C11_Witness ==
    \E t \in SeqThreads :
        /\ Len(hist[t]) = 2 /\ rs[t].pc = "returned"
        /\ hist[t][1].name = hist[t][2].name
        /\ hist[t][1].ok /\ hist[t][2].ok
        /\ Policy(hist[t][1].remote) = "all"
        /\ Policy(hist[t][2].remote) = "repos"
        /\ hist[t][2].res = hist[t][1].res
        /\ hist[t][2].res.Repos # hist[t][2].remote.Repos
        /\ resolved[hist[t][1].name] = hist[t][1].res

----------------------------------------------------------------------------
(* Properties of one (file, repository) unit (Spec) *)

\* the content read of the current unit has been answered, in whatever way
ReadDone == unit.decision # "none"

\* the primary calls of the current unit are exactly one call of this kind,
\* made or about to be made
OneCall(kind) ==
    \/ pc = kind /\ unit.primary = <<>>
    \/ /\ Len(unit.primary) = 1 /\ unit.primary[1].kind = kind
       /\ pc = kind => crashed

\* C12: with dry-run off, a read that finds nothing leads to exactly one create
\* call, a read that finds other content to exactly one update call, and a
\* read that ends in any other way (a 403, no response at all) to no write
\* call and an error returned for that repository
C12_DecisionByRead ==
    (~dryRun /\ ReadDone) =>
        /\ unit.status = 404 => OneCall("create")
        /\ (unit.status = 200 /\ ~ReadEqual) => OneCall("update")
        /\ unit.status \notin {200, 404} =>
              /\ unit.primary = <<>> /\ unit.git = <<>> /\ unit.fallbacks = 0
              /\ pc = "failed" /\ nFailed = 1

\* a repository the run is meant to touch: any, or the one named by only-repo
Wanted(repo) == onlyRepo = EmptyStr \/ repo = onlyRepo

\* the wanted ones among the first k repositories of the resolved list
WantedUpTo(k) == SelectSeq(SubSeq(cur.Repos, 1, k), Wanted)

\* C13: with a non-empty only-repo, nothing is read or written for a repository
\* of another name; with an empty one, every repository of the resolved list
\* is reconciled, in order (as far as the run got)
C13_OnlyRepoFilter ==
    /\ \A i \in 1..Len(reconciled) : Wanted(reconciled[i])
    /\ unit.repo # EmptyStr => Wanted(unit.repo)
    /\ pc \in {"read", "update", "create", "git"} =>
          /\ reconciled = WantedUpTo(repoIdx)
          /\ unit.repo = cur.Repos[repoIdx]
    /\ pc = "repos" => reconciled = WantedUpTo(repoIdx - 1)
    /\ (pc \in {"remote", "files", "done", "resolve"} /\ visited # {}) =>
          reconciled = WantedUpTo(Len(cur.Repos))

\* a filtered run went through a list of two repositories: the one named was
\* read, the other was passed over
C13_Witness ==
    /\ onlyRepo = NameA
    /\ pc = "remote" /\ visited # {}
    /\ cur.Repos = <<NameA, NameC>>
    /\ reconciled = <<NameA>>
    /\ unit.repo = NameA /\ ReadDone

\* C14: the fallback runs only after a conflict: after any other outcome of the
\* primary write (success, another error status, no response at all) no
\* fallback step runs and the write is not repeated, and an outcome that is an
\* error is returned as the error of that repository
C14_FallbackOnlyOnConflict ==
    \A i \in 1..Len(unit.primary) :
        unit.primary[i].status # 409 =>
            /\ unit.git = <<>> /\ unit.fallbacks = 0 /\ pc # "git"
            /\ Len(unit.primary) = 1
            /\ unit.primary[i].status # 200 => pc = "failed" /\ nFailed = 1

----------------------------------------------------------------------------
(* Properties of concurrent calls for different names (SpecResolver) *)

\* C15: no two threads resolving different remote names access the lock map
\* or the result map at the same time, one of them writing, without holding
\* a lock in common
C15_NoDataRace ==
    \A t \in Threads : \A u \in Threads :
        rs[t].name # rs[u].name =>
            \A m \in {"remoteLocks", "resolved"} : ~Races(t, u, m)

\* thread u is inside ResolveRemote and waits for a lock
Waiting(u) ==
    \/ rs[u].pc = "ensureLock" /\ mainLock # NoThread
    \/ rs[u].pc = "lockRemote" /\ ~RemoteLockFree(rs[u].name)

\* thread t is inside the listing call of its remote name
Listing(t) == rs[t].pc = "list" /\ remoteLocks[rs[t].name] = t

\* C16: while a thread is inside the listing for one name, a call for another
\* name never waits: each of its lock acquisitions can be made at once, so it
\* runs to its return while the listing is still going on
C16_NoBlockingAcrossNames ==
    \A t \in Threads : \A u \in Threads :
        (t # u /\ Listing(t) /\ rs[u].name # rs[t].name) => ~Waiting(u)

\* a thread is still inside its first listing, on the second page, and the
\* other thread's call for the other name has listed, stored and returned
C16_Witness ==
    \E t \in Threads : \E u \in Threads :
        /\ t # u /\ ~crashed
        /\ Listing(t) /\ rs[t].page = 2 /\ hist[t] = <<>>
        /\ rs[u].pc = "returned" /\ rs[u].ok
        /\ rs[u].name # rs[t].name
        /\ Len(hist[u]) = 1 /\ hist[u][1].listings = 1
        /\ rs[u].name \in DOMAIN resolved
        /\ rs[t].name \notin DOMAIN resolved
        /\ remoteLocks[rs[u].name] = NoThread

\* C17: every primary update call carries the SHA returned by the content
\* read of the same unit (a read that found the file), and every primary
\* create call carries no SHA (and follows a read that found nothing)
C17_RevisionToken ==
    \A i \in 1..Len(unit.primary) :
        LET call == unit.primary[i] IN
        /\ call.kind = "update" =>
              /\ unit.status = 200 /\ unit.sha \in Shas
              /\ call.sha = unit.sha
        /\ call.kind = "create" =>
              /\ unit.status = 404
              /\ call.sha = ""

\* an update was sent with the second SHA, the one its read returned, and
\* succeeded
C17_Witness ==
    /\ ~dryRun /\ pc = "repos"
    /\ unit.status = 200 /\ unit.sha = "s2"
    /\ Len(unit.primary) = 1
    /\ unit.primary[1].kind = "update" /\ unit.primary[1].sha = "s2"
    /\ unit.primary[1].status = 200

\* the steps the fallback is described by; creating the directory the clone
\* goes into is not among them
ClaimedSteps == <<"RemoveAll", "clone", "WriteFile", "add", "commit", "push">>

IsClaimedStep(g) == InSeq(g.step, ClaimedSteps)

\* C18: the fallback runs remove-stale-copy, clone, write file, stage, commit,
\* push in this order, each at most once; a step runs only if every step
\* before it succeeded, and the error of the first failing step is the result
C18_FallbackOrder ==
    LET n == Len(unit.git)
        claimed == SelectSeq(unit.git, IsClaimedStep)
    IN  /\ n <= Len(GitSteps)
        /\ \A i \in 1..n : \A j \in 1..n : unit.git[i].step = unit.git[j].step => i = j
        /\ Len(claimed) <= Len(ClaimedSteps)
        /\ \A i \in 1..Len(claimed) : claimed[i].step = ClaimedSteps[i]
        /\ \A i \in 1..n : i < n => unit.git[i].ok
        /\ (n > 0 /\ ~unit.git[n].ok) => pc = "failed" /\ nFailed = 1
        /\ pc = "git" => n < Len(GitSteps) /\ \A i \in 1..n : unit.git[i].ok
        /\ (n > 0 /\ pc # "git" /\ unit.git[n].ok) =>
              /\ unit.git[n].step = "push"
              /\ Len(claimed) = Len(ClaimedSteps)

\* the commit failed: the five steps before it had succeeded, nothing was
\* pushed and the run ended with the error
C18_Witness ==
    /\ pc = "failed"
    /\ Len(unit.git) = 6
    /\ unit.git[6].step = "commit" /\ ~unit.git[6].ok
    /\ \A i \in 1..5 : unit.git[i].ok
    /\ unit.git[1].step = "RemoveAll" /\ unit.git[3].step = "clone"

\* the fallback of the current unit got as far as writing the file
WriteFileRan == \E i \in 1..Len(unit.git) : unit.git[i].step = "WriteFile"

\* C19: when the fallback writes the file, the destination's parent directory
\* exists in the working copy, having been created if the clone lacked it, so
\* the write does not fail for a missing directory
C19_ParentsCreated ==
    WriteFileRan => DestParent(unit.dest) \in unit.dirs

----------------------------------------------------------------------------
(* Properties of the stored lists (SpecAny) *)

NoDuplicates(s) == \A i \in 1..Len(s) : \A j \in 1..Len(s) : s[i] = s[j] => i = j

\* C20: no repository name occurs twice in a stored result, whatever the
\* selector and whatever the listing returned
C20_Deduplicated ==
    \A n \in DOMAIN resolved : NoDuplicates(resolved[n].Repos)

----------------------------------------------------------------------------
(* Properties of the owner (SpecAny) *)

----------------------------------------------------------------------------
(* Dry run against real run (Spec) *)

\* the class of a unit as its read alone determines it, whatever the mode
ReadClass ==
    IF unit.status = NilResp THEN "panic"
    ELSE IF unit.status = 200 THEN (IF ReadEqual THEN "unchanged" ELSE "update")
    ELSE IF unit.status = 404 THEN "create"
    ELSE "failed"

\* the class a decision of either mode stands for
ClassOf(decision) ==
    CASE decision = "skip" -> "unchanged"
      [] decision \in {"dryUpdate", "update"} -> "update"
      [] decision \in {"dryCreate", "create"} -> "create"
      [] decision = "error" -> "failed"
      [] OTHER -> decision

\* the response the current unit's read returned
ReadResp ==
    [status |-> unit.status, content |-> unit.remoteContent,
     decodeOk |-> unit.decodeOk, sha |-> unit.sha]

\* C22: a dry run makes the same content read and puts the unit in the same
\* class (unchanged, create, update, failed) as a real run does for the same
\* content and the same read outcome; the dry run only issues no write
C22_DryRunSameDecisions ==
    ReadDone =>
        /\ ClassOf(unit.decision) = ReadClass
        /\ unit.status # NilResp =>
              ClassOf(Decide(ReadResp, unit.content, TRUE))
                  = ClassOf(Decide(ReadResp, unit.content, FALSE))
        /\ dryRun => /\ unit.decision \in {"skip", "dryUpdate", "dryCreate", "error", "panic"}
                     /\ unit.primary = <<>> /\ unit.git = <<>>
        /\ ~dryRun => unit.decision \in {"skip", "update", "create", "error", "panic"}

\* a dry run read a repository that lacks the file and reported that it would
\* create it, without a write
C22_Witness ==
    /\ dryRun /\ pc = "repos"
    /\ unit.status = 404 /\ unit.decision = "dryCreate"
    /\ unit.primary = <<>> /\ ~wrote

----------------------------------------------------------------------------
(* A failed resolution (SpecSeq) *)

\* a call that returned an error left nothing behind: no entry for its name,
\* no lock held; and the call after a failed one for the same name lists anew
FailureLeavesNoTrace ==
    /\ \A t \in SeqThreads :
          /\ (rs[t].pc = "returned" /\ ~rs[t].ok) =>
                /\ rs[t].listings = 1
                /\ rs[t].name \notin DOMAIN resolved
                /\ remoteLocks[rs[t].name] = NoThread
                /\ mainLock = NoThread
          /\ (rs[t].pc = "list" /\ rs[t].page = 1) => rs[t].repos = <<>>
    /\ \A p \in SamePairs :
          (~p[1].ok /\ Policy(p[2].remote) \in {"glob", "all"}) => p[2].listings = 1

\* C23: when the listing call fails, in whatever way, ResolveRemote returns an
\* error, stores no entry for the name and releases the per-name lock, so a
\* later call for the name lists afresh from page 1 and can succeed
C23_FailedResolutionUsable ==
    /\ \A t \in SeqThreads : ~(crashed /\ rs[t].pc = "list")
    /\ FailureLeavesNoTrace

----------------------------------------------------------------------------
(* Progress of concurrent calls (SpecLive) *)

\* thread t is inside ResolveRemote
InCall(t) == rs[t].pc \notin {"idle", "returned"}

\* C24: with every listing request answered, every call of ResolveRemote
\* returns, whatever the names of the concurrent calls; and the thread that
\* holds the outer lock never waits for another lock
C24_EveryCallReturns ==
    /\ \A t \in Threads : InCall(t) ~> (rs[t].pc = "returned")
    /\ [](\A t \in Threads : mainLock = t => rs[t].pc = "ensureBody")

====
